---- MODULE Spec2Model ----
(***************************************************************************)
(* Model of the task-scheduler crate: the Schedule trait and its five      *)
(* implementations (OneTime, Interval, RandomInterval, Cron, Combined)     *)
(* and the Job that gates executions on a schedule.                        *)
(*                                                                         *)
(* Timestamps are whole seconds since 1970-01-01T00:00:00Z (chrono's       *)
(* DateTime<Utc> restricted to second resolution).  Durations are whole    *)
(* seconds.  An Option<DateTime> that a call produces is a record          *)
(* [tag, t] with tag "Some" or "None"; a call that panics (an unwrap of    *)
(* None inside the callee) produces tag "Panic".                           *)
(***************************************************************************)
EXTENDS Integers, Sequences, FiniteSets, TLC

(***************************************************************************)
(* Option<DateTime<Utc>> and the outcome of a call.                        *)
(***************************************************************************)
Some(t) == [tag |-> "Some", t |-> t]

None == [tag |-> "None", t |-> 0]

Panic == [tag |-> "Panic", t |-> 0]

(***************************************************************************)
(* The proleptic Gregorian calendar as chrono computes it.                 *)
(***************************************************************************)
SecsPerDay == 86400

IsLeap(y) == (y % 4 = 0 /\ y % 100 # 0) \/ y % 400 = 0

DaysInMonth(y, m) ==
    IF m = 2 THEN (IF IsLeap(y) THEN 29 ELSE 28)
    ELSE IF m \in {4, 6, 9, 11} THEN 30 ELSE 31

\* Days from 1970-01-01 to the civil date y-m-d.
DaysFromCivil(y, m, d) ==
    LET yy  == IF m <= 2 THEN y - 1 ELSE y
        era == yy \div 400
        yoe == yy - era * 400
        mp  == IF m > 2 THEN m - 3 ELSE m + 9
        doy == (153 * mp + 2) \div 5 + d - 1
        doe == yoe * 365 + yoe \div 4 - yoe \div 100 + doy
    IN  era * 146097 + doe - 719468

\* The civil date of day number z (days since 1970-01-01).
CivilFromDays(z) ==
    LET zz  == z + 719468
        era == zz \div 146097
        doe == zz - era * 146097
        yoe == (doe - doe \div 1460 + doe \div 36524 - doe \div 146096) \div 365
        doy == doe - (365 * yoe + yoe \div 4 - yoe \div 100)
        mp  == (5 * doy + 2) \div 153
        d   == doy - (153 * mp + 2) \div 5 + 1
        m   == IF mp < 10 THEN mp + 3 ELSE mp - 9
        y   == yoe + era * 400 + (IF m <= 2 THEN 1 ELSE 0)
    IN  [year |-> y, month |-> m, day |-> d]

\* A DateTime<Utc> broken into its calendar fields.  valid = FALSE is the
\* value of a chain of with_*().unwrap() calls one of which panicked.
DateTime(y, mo, d, h, mi, s) ==
    [valid |-> TRUE, year |-> y, month |-> mo, day |-> d,
     hour |-> h, minute |-> mi, second |-> s]

Unwrapped == [valid |-> FALSE, year |-> 0, month |-> 0, day |-> 0,
              hour |-> 0, minute |-> 0, second |-> 0]

\* Field accessors of a timestamp: year(), month(), day(), hour(), ...
Fields(t) ==
    LET days == t \div SecsPerDay
        sod  == t % SecsPerDay
        c    == CivilFromDays(days)
    IN  DateTime(c.year, c.month, c.day,
                 sod \div 3600, (sod % 3600) \div 60, sod % 60)

Timestamp(dt) ==
    DaysFromCivil(dt.year, dt.month, dt.day) * SecsPerDay
        + dt.hour * 3600 + dt.minute * 60 + dt.second

\* The weekday counted from Sunday = 0.
num_days_from_sunday(dt) == (DaysFromCivil(dt.year, dt.month, dt.day) + 4) % 7

\* weekday().num_days_from_monday(): 1970-01-01 was a Thursday.
num_days_from_monday(dt) == (DaysFromCivil(dt.year, dt.month, dt.day) + 3) % 7

\* chrono's with_year/with_month/with_day/with_hour/with_minute/with_second
\* followed by unwrap(): the field is replaced when the result is a real
\* date and time, and the unwrap panics otherwise (chrono does not
\* normalise an out-of-range field into the next unit).
with_year(dt, y) ==
    IF ~dt.valid \/ dt.day > DaysInMonth(y, dt.month) THEN Unwrapped
    ELSE [dt EXCEPT !.year = y]

with_month(dt, m) ==
    IF ~dt.valid \/ m < 1 \/ m > 12 THEN Unwrapped
    ELSE IF dt.day > DaysInMonth(dt.year, m) THEN Unwrapped
    ELSE [dt EXCEPT !.month = m]

with_day(dt, d) ==
    IF ~dt.valid \/ d < 1 \/ d > DaysInMonth(dt.year, dt.month) THEN Unwrapped
    ELSE [dt EXCEPT !.day = d]

with_hour(dt, h) ==
    IF ~dt.valid \/ h >= 24 THEN Unwrapped ELSE [dt EXCEPT !.hour = h]

with_minute(dt, m) ==
    IF ~dt.valid \/ m >= 60 THEN Unwrapped ELSE [dt EXCEPT !.minute = m]

with_second(dt, s) ==
    IF ~dt.valid \/ s >= 60 THEN Unwrapped ELSE [dt EXCEPT !.second = s]

(***************************************************************************)
(* Machine arithmetic used by IntervalSchedule: `as f32`, f32 division,    *)
(* `as u64` and `as u32`.  Arguments stay below 2^30.                      *)
(***************************************************************************)
RECURSIVE Log2(_)
\* floor(log2(n)) for n >= 1.
Log2(n) == IF n < 2 THEN 0 ELSE 1 + Log2(n \div 2)

\* `n as f32` for an integer n >= 0: n rounded to 24 significant bits,
\* ties to the even mantissa.
as_f32(n) ==
    IF n < 16777216 THEN n
    ELSE LET u   == 2 ^ (Log2(n) - 23)
             m   == n \div u
             rem == n % u
             up  == 2 * rem > u \/ (2 * rem = u /\ m % 2 = 1)
         IN  (IF up THEN m + 1 ELSE m) * u

\* `(a / b) as u64` for f32 values a >= 0 and b >= 1 that are integers:
\* the quotient is rounded to an f32 (nearest, ties to even) and then
\* truncated toward zero.
f32_div_as_u64(a, b) ==
    LET q == a \div b
        r == a % b
    IN  IF r = 0 THEN as_f32(q)
        ELSE IF q >= 8388608
        THEN \* the f32 grid around a/b is made of integers u apart
             LET u   == 2 ^ (Log2(q) - 23)
                 D   == b * u
                 m   == a \div D
                 rem == a % D
                 up  == 2 * rem > D \/ (2 * rem = D /\ m % 2 = 1)
             IN  (IF up THEN m + 1 ELSE m) * u
        ELSE \* the grid is 1/K apart; the quotient truncates to q unless
             \* it rounds up to q + 1, which is when (b - r) * 2K <= b
             LET K    == IF q = 0 THEN 16777216 ELSE 2 ^ (23 - Log2(q))
                 c    == b \div (2 * K)
                 rem2 == b % (2 * K)
                 even == (K > 1) \/ ((q + 1) % 2 = 0)
                 up   == \/ b - r < c
                         \/ b - r = c /\ rem2 > 0
                         \/ b - r = c /\ rem2 = 0 /\ even
             IN  IF up THEN q + 1 ELSE q

\* `n as u32`: the low 32 bits of n.
as_u32(n) == ((n \div 65536) % 65536) * 65536 + (n % 65536)

(***************************************************************************)
(* OneTimeSchedule                                                         *)
(***************************************************************************)
OneTimeSchedule(time) == [kind |-> "OneTime", time |-> time]

\* A comparison that still hands out the target when `after` is the target.
OneTime_next_occurrence_inclusive(s, after) ==
    IF after <= s.time THEN Some(s.time) ELSE None

OneTime_next_occurrence(s, after) ==
    IF after < s.time THEN Some(s.time) ELSE None

(***************************************************************************)
(* IntervalSchedule                                                        *)
(***************************************************************************)
IntervalSchedule(interval, start_time, end_time) ==
    [kind |-> "Interval", interval |-> interval,
     start_time |-> start_time, end_time |-> end_time]

\* intervals_passed of IntervalSchedule::next_occurrence.
intervals_passed(s, after) ==
    f32_div_as_u64(as_f32(after - s.start_time), as_f32(s.interval))

Interval_next_occurrence(s, after) ==
    IF after < s.start_time THEN Some(s.start_time)
    ELSE LET next_time ==
                 s.start_time + s.interval * as_u32(intervals_passed(s, after) + 1)
         IN  IF s.end_time.tag = "Some" /\ next_time > s.end_time.t
             THEN None
             ELSE Some(next_time)

(***************************************************************************)
(* RandomIntervalSchedule                                                  *)
(***************************************************************************)
RandomIntervalSchedule(min_interval, max_interval, last_time, end_time) ==
    [kind |-> "RandomInterval", min_interval |-> min_interval,
     max_interval |-> max_interval, last_time |-> last_time,
     end_time |-> end_time]

\* A half-open range, min..max, that never samples the upper end.
generate_random_interval_half_open(s) == s.min_interval .. (s.max_interval - 1)

\* The values rng.random_range(min..=max) can produce.
generate_random_interval(s) == s.min_interval .. s.max_interval

\* next_occurrence when the sampled interval is d.
RandomInterval_next_occurrence(s, after, d) ==
    LET last_time == IF s.last_time.tag = "Some" THEN s.last_time.t ELSE after
        next_time == last_time + d
    IN  IF s.end_time.tag = "Some" /\ next_time > s.end_time.t
        THEN None
        ELSE Some(next_time)

(***************************************************************************)
(* CronSchedule                                                            *)
(***************************************************************************)
\* The five constraints are Option<u32>: Some(v) or None.
CronSchedule(minute, hour, day, month, weekday) ==
    [kind |-> "Cron", minute |-> minute, hour |-> hour, day |-> day,
     month |-> month, weekday |-> weekday]

\* .with_hour(0).unwrap().with_minute(0).unwrap().with_second(0).unwrap()
at_midnight(dt) == with_second(with_minute(with_hour(dt, 0), 0), 0)

\* `next = <chain of with_*().unwrap()>; continue;`
Continue(dt) ==
    IF dt.valid THEN [tag |-> "continue", next |-> dt]
    ELSE [tag |-> "panic", next |-> dt]

\* One iteration of the loop of CronSchedule::next_occurrence on the
\* candidate `next`: it returns the candidate, or replaces it and starts
\* over, or panics in an unwrap.
Cron_iteration(c, next) ==
    IF c.month.tag = "Some" /\ next.month < c.month.t
    THEN Continue(at_midnight(with_day(with_month(next, c.month.t), 1)))
    ELSE IF c.month.tag = "Some" /\ next.month > c.month.t
    THEN Continue(at_midnight(
             with_day(with_month(with_year(next, next.year + 1), 1), 1)))
    ELSE IF c.day.tag = "Some" /\ next.day < c.day.t
    THEN Continue(at_midnight(with_day(next, c.day.t)))
    ELSE IF c.day.tag = "Some" /\ next.day > c.day.t
    THEN Continue(at_midnight(with_day(with_month(next, next.month + 1), 1)))
    ELSE IF c.weekday.tag = "Some" /\ num_days_from_monday(next) # c.weekday.t
    THEN Continue(Fields(Timestamp(at_midnight(next)) + SecsPerDay))
    ELSE IF c.hour.tag = "Some" /\ next.hour < c.hour.t
    THEN Continue(with_second(with_minute(with_hour(next, c.hour.t), 0), 0))
    ELSE IF c.hour.tag = "Some" /\ next.hour > c.hour.t
    THEN Continue(at_midnight(with_day(next, next.day + 1)))
    ELSE IF c.minute.tag = "Some" /\ next.minute < c.minute.t
    THEN Continue(with_second(with_minute(next, c.minute.t), 0))
    ELSE IF c.minute.tag = "Some" /\ next.minute > c.minute.t
    THEN Continue(with_second(with_minute(with_hour(next, next.hour + 1), 0), 0))
    ELSE [tag |-> "return", next |-> next]

\* The number of loop iterations followed before the call is reported as
\* still running.
MaxCronIter == 40

Running == [tag |-> "Running", t |-> 0]

RECURSIVE Cron_loop(_, _, _)
Cron_loop(c, next, fuel) ==
    LET step == Cron_iteration(c, next)
    IN  IF step.tag = "return" THEN Some(Timestamp(step.next))
        ELSE IF step.tag = "panic" THEN Panic
        ELSE IF fuel = 0 THEN Running
        ELSE Cron_loop(c, step.next, fuel - 1)

Cron_next_occurrence(c, after) == Cron_loop(c, Fields(after + 1), MaxCronIter)

(***************************************************************************)
(* CombinedSchedule                                                        *)
(***************************************************************************)
CombinedSchedule(schedules) == [kind |-> "Combined", schedules |-> schedules]

RECURSIVE Combined_loop_latest(_, _, _)
\* The loop with the comparison turned around: it keeps the latest answer.
Combined_loop_latest(answers, i, earliest) ==
    IF i > Len(answers) THEN earliest
    ELSE IF answers[i].tag \in {"Panic", "Running"} THEN answers[i]
    ELSE IF answers[i].tag = "None" THEN Combined_loop_latest(answers, i + 1, earliest)
    ELSE IF earliest.tag = "None" THEN Combined_loop_latest(answers, i + 1, answers[i])
    ELSE IF answers[i].t > earliest.t THEN Combined_loop_latest(answers, i + 1, answers[i])
    ELSE Combined_loop_latest(answers, i + 1, earliest)

RECURSIVE Combined_loop(_, _, _)
\* The for loop over the components: answers[i] is what component i
\* answers, earliest the running minimum.  A component that panics (or
\* never returns) ends the call there.
Combined_loop(answers, i, earliest) ==
    IF i > Len(answers) THEN earliest
    ELSE IF answers[i].tag \in {"Panic", "Running"} THEN answers[i]
    ELSE IF answers[i].tag = "None" THEN Combined_loop(answers, i + 1, earliest)
    ELSE IF earliest.tag = "None" THEN Combined_loop(answers, i + 1, answers[i])
    ELSE IF answers[i].t < earliest.t THEN Combined_loop(answers, i + 1, answers[i])
    ELSE Combined_loop(answers, i + 1, earliest)

Combined_next_occurrence(answers) == Combined_loop(answers, 1, None)

(***************************************************************************)
(* Schedule: dynamic dispatch of next_occurrence.  The value is the set of *)
(* outcomes the call can have, one for every variant but RandomInterval    *)
(* (and a Combined holding one).                                           *)
(***************************************************************************)
RECURSIVE next_occurrence(_, _)
RECURSIVE ComponentAnswers(_, _)

\* The sequences of answers the components can give to the same `after`.
ComponentAnswers(schedules, after) ==
    IF schedules = << >> THEN { << >> }
    ELSE { <<h>> \o t : h \in next_occurrence(Head(schedules), after),
                        t \in ComponentAnswers(Tail(schedules), after) }

next_occurrence(s, after) ==
    CASE s.kind = "OneTime" -> { OneTime_next_occurrence(s, after) }
      [] s.kind = "Interval" -> { Interval_next_occurrence(s, after) }
      [] s.kind = "RandomInterval" ->
            { RandomInterval_next_occurrence(s, after, d) :
                  d \in generate_random_interval(s) }
      [] s.kind = "Cron" -> { Cron_next_occurrence(s, after) }
      [] s.kind = "Combined" ->
            { Combined_next_occurrence(ans) :
                  ans \in ComponentAnswers(s.schedules, after) }

(***************************************************************************)
(* Job                                                                     *)
(***************************************************************************)
\* A cap that lets one execution too many through.
max_repeats_reached_off_by_one(max, reps) == max.tag = "Some" /\ reps > max.t

\* u32::MAX, the largest value of `repeats: u32`.  A u32 is held as the
\* 32-bit integer with the same bits: the values from 2^31 upwards appear as
\* the negative numbers, 2^32 - 1 as -1 and 2^32 - 2 as -2.
u32_MAX == -1

\* a >= b between two u32 values.
u32_ge(a, b) == IF (a < 0) = (b < 0) THEN a >= b ELSE a < 0

\* `if let Some(max) = self.max_repeats { if self.repeats >= max {..} }`
max_repeats_reached(max, reps) == max.tag = "Some" /\ u32_ge(reps, max.t)

\* `self.repeats += 1` on a u32: at u32::MAX the sum does not fit, and the
\* build decides what happens: with overflow checks (the debug profile) the
\* statement panics, without them (the release profile) the counter wraps
\* around to 0.
add_assign_one(reps) ==
    IF reps = u32_MAX THEN { Some(0), Panic } ELSE { Some(reps + 1) }

\* `if let Some(end) = self.end_time { if current_time >= end {..} }`
end_time_passed(end, current_time) == end.tag = "Some" /\ current_time >= end.t

\* The argument of the schedule query: current_time - TimeDelta::seconds(1).
probe_time(current_time) == current_time - 1

\* `if let Some(next) = next_time { if next <= current_time {..} }`
is_due(next_time, current_time) ==
    next_time.tag = "Some" /\ next_time.t <= current_time

\* Some(&self.task)
SomeTask(task) == [tag |-> "Some", task |-> task]

\* What a call of should_execute(current_time) can do to a Job whose
\* fields are j: [inner, ret, repeats], the answers it got from its
\* schedule, what it returns and the value it leaves in self.repeats.
should_execute(j, current_time) ==
    IF max_repeats_reached(j.max_repeats, j.repeats)
    THEN { [inner |-> << >>, ret |-> None, repeats |-> j.repeats] }
    ELSE IF end_time_passed(j.end_time, current_time)
    THEN { [inner |-> << >>, ret |-> None, repeats |-> j.repeats] }
    ELSE UNION {
           IF is_due(next_time, current_time)
           THEN { IF sum.tag = "Some"
                  THEN [inner |-> <<next_time>>, ret |-> SomeTask(j.task),
                        repeats |-> sum.t]
                  ELSE [inner |-> <<next_time>>, ret |-> Panic,
                        repeats |-> j.repeats]
                  : sum \in add_assign_one(j.repeats) }
           ELSE IF next_time.tag \in {"Panic", "Running"}
           THEN { [inner |-> <<next_time>>, ret |-> next_time,
                   repeats |-> j.repeats] }
           ELSE { [inner |-> <<next_time>>, ret |-> None,
                   repeats |-> j.repeats] }
           : next_time \in next_occurrence(j.schedule, probe_time(current_time)) }

\* Result<_, SchedulerError>
Ok(value) == [tag |-> "Ok", value |-> value]

Err(error) == [tag |-> "Err", error |-> error]

SomeSchedule(s) == [tag |-> "Some", schedule |-> s]

\* struct JobBuilder
JobBuilder(s, t, max, end) ==
    [schedule |-> s, task |-> t, max_repeats |-> max, end_time |-> end]

JobBuilder_new == JobBuilder(None, None, None, None)

JobBuilder_schedule(b, s) == [b EXCEPT !.schedule = SomeSchedule(s)]

JobBuilder_task(b, t) == [b EXCEPT !.task = SomeTask(t)]

JobBuilder_max_repeats(b, n) == [b EXCEPT !.max_repeats = Some(n)]

JobBuilder_end_time(b, e) == [b EXCEPT !.end_time = Some(e)]

\* struct Job
Job(s, t, max, reps, end) ==
    [schedule |-> s, task |-> t, max_repeats |-> max, repeats |-> reps,
     end_time |-> end]

\* A build that forgets the repeat cap.
JobBuilder_build_drops_max_repeats(b) ==
    IF b.schedule = None THEN Err("InvalidConfiguration")
    ELSE IF b.task = None THEN Err("InvalidConfiguration")
    ELSE Ok(Job(b.schedule.schedule, b.task.task, None, 0, b.end_time))

\* `schedule.ok_or(InvalidConfiguration)?`, `task.ok_or(..)?`, then the Job.
JobBuilder_build(b) ==
    IF b.schedule = None THEN Err("InvalidConfiguration")
    ELSE IF b.task = None THEN Err("InvalidConfiguration")
    ELSE Ok(Job(b.schedule.schedule, b.task.task, b.max_repeats, 0, b.end_time))

\* A constructor that accepts the instant of the clock itself.
OneTimeSchedule_new_accepts_now(time, now) ==
    IF time < now THEN Err("TimeInPast") ELSE Ok(OneTimeSchedule(time))

\* OneTimeSchedule::new(time), with `now` the value Utc::now() returns in it.
OneTimeSchedule_new(time, now) ==
    IF time <= now THEN Err("TimeInPast") ELSE Ok(OneTimeSchedule(time))

\* IntervalSchedule::new(interval, start_time), the interval in seconds.
IntervalSchedule_new(interval, start_time) ==
    IF interval = 0 THEN Err("InvalidDuration")
    ELSE Ok(IntervalSchedule(interval, start_time, None))

Interval_with_end_time(s, end) == [s EXCEPT !.end_time = Some(end)]

\* A constructor that compares the two durations before it looks for a zero.
RandomIntervalSchedule_new_order_first(min_interval, max_interval) ==
    IF min_interval > max_interval THEN Err("InvalidConfiguration")
    ELSE IF min_interval = 0 \/ max_interval = 0 THEN Err("InvalidDuration")
    ELSE Ok(RandomIntervalSchedule(min_interval, max_interval, None, None))

\* RandomIntervalSchedule::new(min_interval, max_interval), in seconds.
RandomIntervalSchedule_new(min_interval, max_interval) ==
    IF min_interval = 0 \/ max_interval = 0 THEN Err("InvalidDuration")
    ELSE IF min_interval > max_interval THEN Err("InvalidConfiguration")
    ELSE Ok(RandomIntervalSchedule(min_interval, max_interval, None, None))

RandomInterval_with_end_time(s, end) == [s EXCEPT !.end_time = Some(end)]

RandomInterval_with_start_time(s, start) == [s EXCEPT !.last_time = Some(start)]

\* CronSchedule::new(): every field a wildcard.
CronSchedule_new == CronSchedule(None, None, None, None, None)

Cron_minute(c, minute) ==
    IF minute >= 60 THEN Err("InvalidConfiguration")
    ELSE Ok([c EXCEPT !.minute = Some(minute)])

Cron_hour(c, hour) ==
    IF hour >= 24 THEN Err("InvalidConfiguration")
    ELSE Ok([c EXCEPT !.hour = Some(hour)])

\* A day setter without the check for zero.
Cron_day_accepts_zero(c, day) ==
    IF day > 31 THEN Err("InvalidConfiguration")
    ELSE Ok([c EXCEPT !.day = Some(day)])

Cron_day(c, day) ==
    IF day = 0 \/ day > 31 THEN Err("InvalidConfiguration")
    ELSE Ok([c EXCEPT !.day = Some(day)])

Cron_month(c, month) ==
    IF month = 0 \/ month > 12 THEN Err("InvalidConfiguration")
    ELSE Ok([c EXCEPT !.month = Some(month)])

Cron_weekday(c, weekday) ==
    IF weekday >= 7 THEN Err("InvalidConfiguration")
    ELSE Ok([c EXCEPT !.weekday = Some(weekday)])

\* The setter named `field`, applied to c.
Cron_set(c, field, value) ==
    CASE field = "minute" -> Cron_minute(c, value)
      [] field = "hour" -> Cron_hour(c, value)
      [] field = "day" -> Cron_day(c, value)
      [] field = "month" -> Cron_month(c, value)
      [] field = "weekday" -> Cron_weekday(c, value)

(***************************************************************************)
(* The inputs: timestamps and schedules.                                   *)
(***************************************************************************)
\* 2023-01-01T00:00:00Z, a Sunday.
T0 == Timestamp(DateTime(2023, 1, 1, 0, 0, 0))

\* 2^24 seconds after T0: from here on an elapsed time is not always an f32.
Far == T0 + 16777216

Span == 6

MaxInterval == 3

MaxRepeats == 2

RepeatsCap == 3

NearTimes == (T0 - 2) .. (T0 + Span)

FarTimes == (Far - 1) .. (Far + Span - 1)

CalendarTimes ==
    { T0 + 3600, T0 + 7200,
      Timestamp(DateTime(2023, 1, 1, 8, 0, 0)),
      Timestamp(DateTime(2023, 1, 1, 12, 0, 30)),
      Timestamp(DateTime(2023, 1, 1, 13, 0, 0)),
      Timestamp(DateTime(2023, 1, 16, 0, 0, 0)),
      Timestamp(DateTime(2023, 1, 31, 13, 0, 0)),
      Timestamp(DateTime(2023, 6, 15, 23, 59, 30)),
      Timestamp(DateTime(2024, 2, 29, 10, 0, 0)) }

Times == NearTimes \cup FarTimes \cup CalendarTimes

OneTimes == { OneTimeSchedule(T0 + 1), OneTimeSchedule(T0 + 3) }

Intervals ==
    { IntervalSchedule(i, s, e) :
          i \in 1 .. MaxInterval, s \in {T0, T0 + 2},
          e \in {None, Some(T0 + 1), Some(T0 + 4)} }
    \cup { IntervalSchedule(3600, T0, None),
           IntervalSchedule(3600, T0, Some(T0 + 7200)) }

Randoms ==
    { RandomIntervalSchedule(lo, hi, l, e) :
          lo \in 1 .. MaxInterval, hi \in 1 .. MaxInterval,
          l \in {None, Some(T0)}, e \in {None, Some(T0 + 3)} }

\* CronSchedule with hour and minute set.
Daily(h, m) == CronSchedule(Some(m), Some(h), None, None, None)

Crons ==
    { Daily(12, 0), Daily(0, 0), Daily(23, 59),
      CronSchedule(None, None, None, None, None),
      CronSchedule(Some(0), Some(12), Some(1), None, None),
      CronSchedule(Some(0), Some(0), Some(15), None, None),
      CronSchedule(None, None, None, Some(3), None),
      CronSchedule(None, None, None, Some(2), None),
      CronSchedule(Some(0), Some(10), None, None, Some(5)),
      CronSchedule(Some(0), Some(0), None, None, Some(6)),
      CronSchedule(None, None, Some(31), Some(2), None),
      CronSchedule(Some(30), Some(6), Some(10), Some(3), None),
      CronSchedule(Some(0), Some(0), None, Some(3), Some(0)) }

Components ==
    { OneTimeSchedule(T0 + 1), OneTimeSchedule(T0 + 3),
      IntervalSchedule(2, T0, None),
      IntervalSchedule(3, T0 + 2, Some(T0 + 4)),
      RandomIntervalSchedule(1, 2, None, None),
      Daily(0, 0) }

Combineds ==
    { CombinedSchedule(<< >>) }
    \cup { CombinedSchedule(<<a>>) : a \in Components }
    \cup { CombinedSchedule(<<a, b>>) : a \in Components, b \in Components }
    \cup { CombinedSchedule(<<OneTimeSchedule(T0 + 3), IntervalSchedule(2, T0, None),
                              OneTimeSchedule(T0 + 1)>>),
           CombinedSchedule(<<CombinedSchedule(<<OneTimeSchedule(T0 + 3),
                                                 OneTimeSchedule(T0 + 1)>>),
                              IntervalSchedule(3, T0 + 2, Some(T0 + 4))>>) }

\* RandomIntervalSchedule::new rejects min_interval > max_interval.
Schedules ==
    OneTimes \cup Intervals \cup Crons \cup Combineds
    \cup { r \in Randoms : r.min_interval <= r.max_interval }

Tasks == { "payload" }

(***************************************************************************)
(* State                                                                   *)
(***************************************************************************)
VARIABLES
    schedule,     \* the schedule (Job.schedule once it is owned by a Job)
    task,         \* Job.task
    max_repeats,  \* Job.max_repeats
    repeats,      \* Job.repeats
    end_time,     \* Job.end_time
    call,         \* the last call made: [op, arg, was, inner, ret], with
                  \* `was` the value of repeats when it was made (for a
                  \* CronSchedule loop in progress: its iterations so far)
    repeat_of,    \* what the call before it returned, if that was the same
                  \* operation with the same argument
    fired,        \* how many should_execute calls have returned the task
    initial,      \* the schedule, task, max_repeats and end_time as constructed
    expired,      \* a should_execute call at or past end_time returned none
    builder,      \* the JobBuilder under construction
    supplied,     \* the last argument given to each JobBuilder setter
    cron_next     \* `next`, the candidate of a running CronSchedule loop

vars == <<schedule, task, max_repeats, repeats, end_time, call, repeat_of, fired,
          initial, expired, builder, supplied,
                   cron_next>>

NoCall == [op |-> "none", arg |-> 0, was |-> 0, inner |-> << >>, ret |-> None]

NoRet == [tag |-> "NoCall", t |-> 0]

\* A schedule that keeps a rolling cursor: an IntervalSchedule moves its
\* start to the occurrence it handed out.
self_after_rolling_cursor(s, ret) ==
    IF s.kind = "Interval" /\ ret.tag = "Some"
    THEN [s EXCEPT !.start_time = ret.t]
    ELSE s

\* next_occurrence takes &self: the call leaves the schedule as it was.
self_after_next_occurrence(s, ret) == s

\* A query of the schedule: schedule.next_occurrence(after).
NextOccurrence(after) ==
    /\ \E inner \in (IF schedule.kind = "Combined"
                     THEN ComponentAnswers(schedule.schedules, after)
                     ELSE { <<r>> : r \in next_occurrence(schedule, after) }) :
           LET ret == IF schedule.kind = "Combined"
                      THEN Combined_next_occurrence(inner)
                      ELSE inner[1]
           IN  /\ call' = [op |-> "next_occurrence", arg |-> after,
                           was |-> repeats, inner |-> inner, ret |-> ret]
               /\ schedule' = self_after_next_occurrence(schedule, ret)
    /\ repeat_of' = IF call.op = "next_occurrence" /\ call.arg = after
                    THEN call.ret ELSE NoRet
    /\ UNCHANGED <<task, max_repeats, repeats, end_time, fired, initial, expired,
                   builder, supplied,
                   cron_next>>

\* job.should_execute(current_time)
ShouldExecute(current_time) ==
    /\ repeats < RepeatsCap
    /\ \E r \in should_execute(
                   [schedule |-> schedule, task |-> task,
                    max_repeats |-> max_repeats, repeats |-> repeats,
                    end_time |-> end_time], current_time) :
           /\ call' = [op |-> "should_execute", arg |-> current_time,
                       was |-> repeats, inner |-> r.inner, ret |-> r.ret]
           /\ repeats' = r.repeats
           /\ fired' = IF r.ret.tag = "Some" THEN fired + 1 ELSE fired
           /\ expired' = (expired \/ (/\ end_time_passed(end_time, current_time)
                                       /\ r.ret = None))
    /\ repeat_of' = IF call.op = "should_execute" /\ call.arg = current_time
                    THEN call.ret ELSE NoRet
    /\ UNCHANGED <<schedule, task, max_repeats, end_time, initial, builder,
                   supplied,
                   cron_next>>

\* A schedule on its own, queried by its owner.
Init ==
    /\ schedule \in Schedules
    /\ task \in Tasks
    /\ max_repeats = None
    /\ end_time = None
    /\ repeats = 0
    /\ call = NoCall
    /\ repeat_of = NoRet
    /\ fired = 0
    /\ initial = [schedule |-> schedule, task |-> task,
                  max_repeats |-> max_repeats, end_time |-> end_time]
    /\ expired = FALSE
    /\ builder = JobBuilder_new
    /\ supplied = JobBuilder_new
    /\ cron_next = Unwrapped

Next == \E after \in Times : NextOccurrence(after)

Spec == Init /\ [][Next]_vars

JobSchedules ==
    { OneTimeSchedule(T0 + 1),
      IntervalSchedule(3, T0 + 2, Some(T0 + 4)),
      IntervalSchedule(3600, T0, None),
      RandomIntervalSchedule(1, 2, None, None),
      RandomIntervalSchedule(1, 2, Some(T0), None),
      Daily(0, 0), Daily(12, 0),
      CronSchedule(Some(0), Some(12), Some(1), None, None),
      CombinedSchedule(<<OneTimeSchedule(T0 + 3), IntervalSchedule(2, T0, None)>>),
      CombinedSchedule(<<RandomIntervalSchedule(1, 2, None, None), Daily(0, 0)>>) }
    \cup { IntervalSchedule(i, T0, None) : i \in 1 .. MaxInterval }

\* A Job as JobBuilder::build returns it.
JobInit ==
    /\ schedule \in JobSchedules
    /\ task \in Tasks
    /\ max_repeats \in {None} \cup { Some(n) : n \in 0 .. MaxRepeats }
    /\ end_time \in {None, Some(T0 + 2), Some(T0 + 3600)}
    /\ repeats = 0
    /\ call = NoCall
    /\ repeat_of = NoRet
    /\ fired = 0
    /\ initial = [schedule |-> schedule, task |-> task,
                  max_repeats |-> max_repeats, end_time |-> end_time]
    /\ expired = FALSE
    /\ builder = JobBuilder_new
    /\ supplied = JobBuilder_new
    /\ cron_next = Unwrapped

JobNext == \E current_time \in Times : ShouldExecute(current_time)

JobSpec == JobInit /\ [][JobNext]_vars

\* A Job without max_repeats that has been in service for long: it has
\* returned its task u32::MAX - 1 times already (an IntervalSchedule probed
\* at one of its occurrences returns the task on every call).  `fired`
\* counts the executions from here on.
LongRunInit ==
    /\ schedule \in JobSchedules
    /\ task \in Tasks
    /\ max_repeats = None
    /\ end_time \in {None, Some(T0 + 2), Some(T0 + 3600)}
    /\ repeats = u32_MAX - 1
    /\ call = NoCall
    /\ repeat_of = NoRet
    /\ fired = 0
    /\ initial = [schedule |-> schedule, task |-> task,
                  max_repeats |-> max_repeats, end_time |-> end_time]
    /\ expired = FALSE
    /\ builder = JobBuilder_new
    /\ supplied = JobBuilder_new
    /\ cron_next = Unwrapped

LongRunSpec == LongRunInit /\ [][JobNext]_vars

\* How many seconds of the day a sweep covers.
SweepLen == 130

\* A Job on a daily cron schedule, without max_repeats and end_time, at the
\* start of the day 2023-01-01.
DaySweepInit ==
    /\ schedule \in {Daily(0, 0), Daily(0, 1), Daily(0, 2)}
    /\ task \in Tasks
    /\ max_repeats = None
    /\ end_time = None
    /\ repeats = 0
    /\ call = NoCall
    /\ repeat_of = NoRet
    /\ fired = 0
    /\ initial = [schedule |-> schedule, task |-> task,
                  max_repeats |-> max_repeats, end_time |-> end_time]
    /\ expired = FALSE
    /\ builder = JobBuilder_new
    /\ supplied = JobBuilder_new
    /\ cron_next = Unwrapped

\* The owner probes the Job once at every second, from midnight on.
DaySweep ==
    \E current_time \in {IF call = NoCall THEN T0 ELSE call.arg + 1} :
        /\ current_time < T0 + SweepLen
        /\ ShouldExecute(current_time)

DaySweepSpec == DaySweepInit /\ [][DaySweep]_vars

\* The schedules handed to JobBuilder::schedule.
BuilderSchedules ==
    { OneTimeSchedule(T0 + 1), IntervalSchedule(1, T0, None), Daily(12, 0) }

NoSchedule == [kind |-> "None"]

NoTask == ""

BuilderCall(op) ==
    [op |-> op, arg |-> 0, was |-> 0, inner |-> << >>, ret |-> None]

\* builder.schedule(s)
BuilderSchedule(s) ==
    /\ call.op # "build"
    /\ builder' = JobBuilder_schedule(builder, s)
    /\ supplied' = [supplied EXCEPT !.schedule = SomeSchedule(s)]
    /\ call' = BuilderCall("schedule")
    /\ UNCHANGED <<schedule, task, max_repeats, repeats, end_time, repeat_of,
                   fired, initial, expired, cron_next>>

\* builder.task(t)
BuilderTask(t) ==
    /\ call.op # "build"
    /\ builder' = JobBuilder_task(builder, t)
    /\ supplied' = [supplied EXCEPT !.task = SomeTask(t)]
    /\ call' = BuilderCall("task")
    /\ UNCHANGED <<schedule, task, max_repeats, repeats, end_time, repeat_of,
                   fired, initial, expired, cron_next>>

\* builder.max_repeats(n)
BuilderMaxRepeats(n) ==
    /\ call.op # "build"
    /\ builder' = JobBuilder_max_repeats(builder, n)
    /\ supplied' = [supplied EXCEPT !.max_repeats = Some(n)]
    /\ call' = BuilderCall("max_repeats")
    /\ UNCHANGED <<schedule, task, max_repeats, repeats, end_time, repeat_of,
                   fired, initial, expired, cron_next>>

\* builder.end_time(e)
BuilderEndTime(e) ==
    /\ call.op # "build"
    /\ builder' = JobBuilder_end_time(builder, e)
    /\ supplied' = [supplied EXCEPT !.end_time = Some(e)]
    /\ call' = BuilderCall("end_time")
    /\ UNCHANGED <<schedule, task, max_repeats, repeats, end_time, repeat_of,
                   fired, initial, expired, cron_next>>

\* builder.build(): it consumes the builder, and on Ok the Job exists.
Build ==
    /\ call.op # "build"
    /\ LET r == JobBuilder_build(builder)
       IN  /\ call' = [BuilderCall("build") EXCEPT !.ret = r]
           /\ IF r.tag = "Ok"
              THEN /\ schedule' = r.value.schedule
                   /\ task' = r.value.task
                   /\ max_repeats' = r.value.max_repeats
                   /\ repeats' = r.value.repeats
                   /\ end_time' = r.value.end_time
              ELSE UNCHANGED <<schedule, task, max_repeats, repeats, end_time>>
    /\ UNCHANGED <<repeat_of, fired, initial, expired, builder, supplied,
                   cron_next>>

\* JobBuilder::new(): nothing set, and no Job yet.
BuilderInit ==
    /\ builder = JobBuilder_new
    /\ supplied = JobBuilder_new
    /\ cron_next = Unwrapped
    /\ schedule = NoSchedule
    /\ task = NoTask
    /\ max_repeats = None
    /\ end_time = None
    /\ repeats = 0
    /\ call = NoCall
    /\ repeat_of = NoRet
    /\ fired = 0
    /\ initial = [schedule |-> schedule, task |-> task,
                  max_repeats |-> max_repeats, end_time |-> end_time]
    /\ expired = FALSE

BuilderNext ==
    \/ \E s \in BuilderSchedules : BuilderSchedule(s)
    \/ \E t \in Tasks : BuilderTask(t)
    \/ \E n \in 0 .. MaxRepeats : BuilderMaxRepeats(n)
    \/ \E e \in {T0 + 2, T0 + 3600} : BuilderEndTime(e)
    \/ Build

BuilderSpec == BuilderInit /\ [][BuilderNext]_vars

\* The arguments the constructors and setters are called with: in range,
\* on the edge of the range, and just outside it.
ClockTimes == {T0, T0 + 1}

TargetTimes == (T0 - 1) .. (T0 + 2)

Durations == 0 .. MaxInterval

CronFields == {"minute", "hour", "day", "month", "weekday"}

CronValues(field) ==
    CASE field = "minute" -> {0, 59, 60}
      [] field = "hour" -> {0, 23, 24}
      [] field = "day" -> {0, 1, 31, 32}
      [] field = "month" -> {0, 1, 12, 13}
      [] field = "weekday" -> {0, 6, 7}

\* What the caller holds after a call that returns Result<Self, _> or
\* Self: the schedule on Ok, nothing on Err (the call consumed `self`).
Held(r) == IF r.tag = "Ok" THEN r.value ELSE NoSchedule

ConstructorCall(op, arg, self, r) ==
    [op |-> op, arg |-> arg, was |-> 0, inner |-> <<self>>, ret |-> r]

\* OneTimeSchedule::new(time) while the clock reads `now`.
OneTimeNew(time, now) ==
    /\ call' = ConstructorCall("OneTimeSchedule::new", <<time, now>>,
                               NoSchedule, OneTimeSchedule_new(time, now))
    /\ schedule' = Held(OneTimeSchedule_new(time, now))
    /\ UNCHANGED <<task, max_repeats, repeats, end_time, repeat_of, fired,
                   initial, expired, builder, supplied,
                   cron_next>>

IntervalNew(interval, start_time) ==
    /\ call' = ConstructorCall("IntervalSchedule::new",
                               <<interval, start_time>>, NoSchedule,
                               IntervalSchedule_new(interval, start_time))
    /\ schedule' = Held(IntervalSchedule_new(interval, start_time))
    /\ UNCHANGED <<task, max_repeats, repeats, end_time, repeat_of, fired,
                   initial, expired, builder, supplied,
                   cron_next>>

IntervalWithEndTime(end) ==
    /\ schedule.kind = "Interval"
    /\ call' = ConstructorCall("IntervalSchedule::with_end_time", <<end>>,
                               schedule, Ok(Interval_with_end_time(schedule, end)))
    /\ schedule' = Interval_with_end_time(schedule, end)
    /\ UNCHANGED <<task, max_repeats, repeats, end_time, repeat_of, fired,
                   initial, expired, builder, supplied,
                   cron_next>>

RandomIntervalNew(min_interval, max_interval) ==
    /\ call' = ConstructorCall("RandomIntervalSchedule::new",
                               <<min_interval, max_interval>>, NoSchedule,
                               RandomIntervalSchedule_new(min_interval,
                                                          max_interval))
    /\ schedule' = Held(RandomIntervalSchedule_new(min_interval, max_interval))
    /\ UNCHANGED <<task, max_repeats, repeats, end_time, repeat_of, fired,
                   initial, expired, builder, supplied,
                   cron_next>>

RandomIntervalWithEndTime(end) ==
    /\ schedule.kind = "RandomInterval"
    /\ call' = ConstructorCall("RandomIntervalSchedule::with_end_time", <<end>>,
                               schedule,
                               Ok(RandomInterval_with_end_time(schedule, end)))
    /\ schedule' = RandomInterval_with_end_time(schedule, end)
    /\ UNCHANGED <<task, max_repeats, repeats, end_time, repeat_of, fired,
                   initial, expired, builder, supplied,
                   cron_next>>

RandomIntervalWithStartTime(start) ==
    /\ schedule.kind = "RandomInterval"
    /\ call' = ConstructorCall("RandomIntervalSchedule::with_start_time",
                               <<start>>, schedule,
                               Ok(RandomInterval_with_start_time(schedule, start)))
    /\ schedule' = RandomInterval_with_start_time(schedule, start)
    /\ UNCHANGED <<task, max_repeats, repeats, end_time, repeat_of, fired,
                   initial, expired, builder, supplied,
                   cron_next>>

CronNew ==
    /\ call' = ConstructorCall("CronSchedule::new", << >>, NoSchedule,
                               Ok(CronSchedule_new))
    /\ schedule' = CronSchedule_new
    /\ UNCHANGED <<task, max_repeats, repeats, end_time, repeat_of, fired,
                   initial, expired, builder, supplied,
                   cron_next>>

\* schedule.minute(v), .hour(v), .day(v), .month(v) or .weekday(v)
CronSet(field, value) ==
    /\ schedule.kind = "Cron"
    /\ call' = ConstructorCall("CronSchedule::set", <<field, value>>, schedule,
                               Cron_set(schedule, field, value))
    /\ schedule' = Held(Cron_set(schedule, field, value))
    /\ UNCHANGED <<task, max_repeats, repeats, end_time, repeat_of, fired,
                   initial, expired, builder, supplied,
                   cron_next>>

\* Nothing constructed yet.
CtorInit ==
    /\ schedule = NoSchedule
    /\ task = NoTask
    /\ max_repeats = None
    /\ end_time = None
    /\ repeats = 0
    /\ call = NoCall
    /\ repeat_of = NoRet
    /\ fired = 0
    /\ initial = [schedule |-> schedule, task |-> task,
                  max_repeats |-> max_repeats, end_time |-> end_time]
    /\ expired = FALSE
    /\ builder = JobBuilder_new
    /\ supplied = JobBuilder_new
    /\ cron_next = Unwrapped

CtorNext ==
    \/ \E time \in TargetTimes, now \in ClockTimes : OneTimeNew(time, now)
    \/ \E i \in Durations, s \in {T0, T0 + 2} : IntervalNew(i, s)
    \/ \E e \in {T0 + 1, T0 + 4} : IntervalWithEndTime(e)
    \/ \E lo, hi \in Durations : RandomIntervalNew(lo, hi)
    \/ \E e \in {T0 + 3} : RandomIntervalWithEndTime(e)
    \/ \E s \in {T0} : RandomIntervalWithStartTime(s)
    \/ CronNew
    \/ \E field \in CronFields : \E v \in CronValues(field) : CronSet(field, v)

CtorSpec == CtorInit /\ [][CtorNext]_vars

\* The loop of CronSchedule::next_occurrence, one iteration at a time.
\* `let mut next = after; next += Duration::from_secs(1);`
CronEnter(after) ==
    /\ call = NoCall
    /\ cron_next' = Fields(after + 1)
    /\ call' = [op |-> "CronSchedule::next_occurrence", arg |-> after,
                was |-> 0, inner |-> << >>, ret |-> Running]
    /\ UNCHANGED <<schedule, task, max_repeats, repeats, end_time, repeat_of,
                   fired, initial, expired, builder, supplied>>

\* One pass through the body of `loop { .. }`.
CronIterate ==
    /\ call.op = "CronSchedule::next_occurrence"
    /\ call.ret = Running
    /\ call.was < MaxCronIter
    /\ LET step == Cron_iteration(schedule, cron_next)
       IN  /\ call' = [call EXCEPT
                          !.was = @ + 1,
                          !.ret = CASE step.tag = "return" ->
                                           Some(Timestamp(step.next))
                                    [] step.tag = "panic" -> Panic
                                    [] step.tag = "continue" -> Running]
           /\ cron_next' = IF step.tag = "continue" THEN step.next
                           ELSE cron_next
    /\ UNCHANGED <<schedule, task, max_repeats, repeats, end_time, repeat_of,
                   fired, initial, expired, builder, supplied>>

\* A CronSchedule, before next_occurrence is called on it.
CronLoopInit ==
    /\ schedule \in Crons
    /\ task = NoTask
    /\ max_repeats = None
    /\ end_time = None
    /\ repeats = 0
    /\ call = NoCall
    /\ repeat_of = NoRet
    /\ fired = 0
    /\ initial = [schedule |-> schedule, task |-> task,
                  max_repeats |-> max_repeats, end_time |-> end_time]
    /\ expired = FALSE
    /\ builder = JobBuilder_new
    /\ supplied = JobBuilder_new
    /\ cron_next = Unwrapped

CronLoopNext ==
    \/ \E after \in Times : CronEnter(after)
    \/ CronIterate

\* The loop is sequential code: while it has an iteration to run, it runs it.
CronLoopSpec == CronLoopInit /\ [][CronLoopNext]_vars /\ WF_vars(CronIterate)

(***************************************************************************)
(* Properties                                                              *)
(***************************************************************************)
Queried == call.op = "next_occurrence"

Probed == call.op = "should_execute"

Min(S) == CHOOSE x \in S : \A y \in S : x <= y

\* C1: for every schedule variant and every `after`, a timestamp returned
\* by next_occurrence(after) is strictly greater than `after`; a timestamp
\* less than or equal to `after` is never returned.
C1_StrictlyAfter ==
    Queried /\ call.ret.tag = "Some" => call.ret.t > call.arg

\* C2: a Job built with max_repeats = N returns the task from
\* should_execute at most N times in total, whatever the timestamps it is
\* probed with; once it has done so N times every later call returns none.
C2_AtMostMaxRepeats ==
    max_repeats.tag = "Some" => fired <= max_repeats.t

\* The cap has been reached and a probe at an instant the schedule would
\* have fired at returned none.
C2_Witness ==
    /\ Probed /\ max_repeats.tag = "Some" /\ max_repeats.t > 0
    /\ fired = max_repeats.t
    /\ call.ret = None /\ call.inner = << >>
    /\ ~end_time_passed(end_time, call.arg)
    /\ \E n \in next_occurrence(schedule, probe_time(call.arg)) :
           is_due(n, call.arg)

\* A CronSchedule with only hour and minute set.
IsDaily(s) ==
    /\ s.kind = "Cron"
    /\ s.hour.tag = "Some" /\ s.minute.tag = "Some"
    /\ s.day = None /\ s.month = None /\ s.weekday = None

\* The first instant h:m:00 strictly after `after`.
FirstDailyAfter(h, m, after) ==
    LET today == (after \div SecsPerDay) * SecsPerDay + h * 3600 + m * 60
    IN  IF today > after THEN today ELSE today + SecsPerDay

\* C3: for a CronSchedule with only hour = H and minute = M set,
\* next_occurrence(after) is the smallest timestamp strictly after `after`
\* with hour H, minute M and second 0, and it is at most 24 hours after
\* `after`, also when `after` lies inside the minute H:M.
C3_DailyCron ==
    Queried /\ IsDaily(schedule) =>
        /\ call.ret = Some(FirstDailyAfter(schedule.hour.t, schedule.minute.t,
                                           call.arg))
        /\ Fields(call.ret.t).hour = schedule.hour.t
        /\ Fields(call.ret.t).minute = schedule.minute.t
        /\ Fields(call.ret.t).second = 0
        /\ call.ret.t > call.arg
        /\ call.ret.t - call.arg <= SecsPerDay

\* C4: for an IntervalSchedule with start S and interval I and no end_time,
\* and every `after` >= S, next_occurrence(after) is strictly greater than
\* `after` and next_occurrence(after) - S is a positive multiple of I.
C4_IntervalAligned ==
    Queried /\ schedule.kind = "Interval" /\ schedule.end_time = None
            /\ call.arg >= schedule.start_time =>
        /\ call.ret.tag = "Some"
        /\ call.ret.t > call.arg
        /\ call.ret.t - schedule.start_time > 0
        /\ (call.ret.t - schedule.start_time) % schedule.interval = 0

\* The candidate occurrence of an IntervalSchedule: the start before the
\* start, and the first slot strictly after `after` from then on.
IntervalCandidate(s, after) ==
    IF after < s.start_time THEN s.start_time
    ELSE s.start_time + s.interval * ((after - s.start_time) \div s.interval + 1)

\* C5: for an IntervalSchedule with end_time E and every `after` (also
\* before the start, also when the start is later than E),
\* next_occurrence(after) is none when the candidate occurrence exceeds E
\* and the candidate otherwise, so it never returns a timestamp greater
\* than E.
C5_IntervalEnd ==
    Queried /\ schedule.kind = "Interval" /\ schedule.end_time.tag = "Some" =>
        /\ call.ret = IF IntervalCandidate(schedule, call.arg) > schedule.end_time.t
                      THEN None
                      ELSE Some(IntervalCandidate(schedule, call.arg))
        /\ call.ret.tag = "Some" => call.ret.t <= schedule.end_time.t

\* C6: for a OneTimeSchedule with target T, next_occurrence(after) is
\* Some(T) for every `after` < T and none for every `after` >= T, also
\* for after = T.
C6_OneTime ==
    Queried /\ schedule.kind = "OneTime" =>
        /\ call.arg < schedule.time => call.ret = Some(schedule.time)
        /\ call.arg >= schedule.time => call.ret = None

\* The target itself was the argument, and the answer was none.
C6_Witness ==
    Queried /\ schedule.kind = "OneTime" /\ call.arg = schedule.time
            /\ call.ret = None

\* Every component gave an answer (none of them panicked).
AllAnswered(answers) ==
    \A i \in DOMAIN answers : answers[i].tag \in {"Some", "None"}

\* The sequences that hold the elements of seq in some order.
Perms(seq) ==
    LET n == Len(seq)
    IN  { [i \in 1 .. n |-> seq[f[i]]] :
              f \in { g \in [1 .. n -> 1 .. n] :
                          \A i, j \in 1 .. n : g[i] = g[j] => i = j } }

\* C7: for a CombinedSchedule over any ordered collection of components
\* (also none, also one) and every t, next_occurrence(t) is the minimum of
\* the answers of the components to t, none counting as +infinity; it is
\* none exactly when every component answers none, and it is the same for
\* every order of the components.
C7_CombinedMin ==
    Queried /\ schedule.kind = "Combined" /\ AllAnswered(call.inner) =>
        LET ts == { call.inner[i].t :
                        i \in { k \in DOMAIN call.inner :
                                    call.inner[k].tag = "Some" } }
        IN  /\ call.ret = IF ts = {} THEN None ELSE Some(Min(ts))
            /\ call.ret = None <=> \A i \in DOMAIN call.inner : call.inner[i] = None
            /\ \A p \in Perms(call.inner) : Combined_next_occurrence(p) = call.ret

\* A later component answered with an earlier timestamp than the first
\* one, and that timestamp is the result.
C7_Witness ==
    /\ Queried /\ schedule.kind = "Combined" /\ Len(call.inner) >= 2
    /\ AllAnswered(call.inner)
    /\ call.inner[1].tag = "Some" /\ call.inner[2].tag = "Some"
    /\ call.inner[2].t < call.inner[1].t
    /\ call.ret = call.inner[2]

RECURSIVE IsRandomFree(_)
\* No RandomIntervalSchedule in s, at any depth.
IsRandomFree(s) ==
    /\ s.kind # "RandomInterval"
    /\ s.kind = "Combined" =>
           \A i \in DOMAIN s.schedules : IsRandomFree(s.schedules[i])

C9_ShouldExecuteFrame ==
    Probed =>
        /\ call.inner # << >> =>
               IF is_due(call.inner[1], call.arg)
               THEN call.ret = SomeTask(task) /\ repeats = call.was + 1
               ELSE call.ret = None /\ repeats = call.was
        /\ call.inner = << >> => call.ret = None /\ repeats = call.was
        /\ schedule = initial.schedule /\ task = initial.task
        /\ max_repeats = initial.max_repeats /\ end_time = initial.end_time

\* C10: a Job over an IntervalSchedule with start S and interval I, no
\* end and the repeat cap not reached, returns the task when probed at any
\* current_time = S + n * I (n >= 0, however large) and returns none when
\* probed before S or strictly between two slots.
C10_IntervalJob ==
    Probed /\ schedule.kind = "Interval" /\ schedule.end_time = None
           /\ end_time = None /\ call.inner # << >> =>
        IF /\ call.arg >= schedule.start_time
           /\ (call.arg - schedule.start_time) % schedule.interval = 0
        THEN call.ret = SomeTask(task)
        ELSE call.ret = None

\* C11: for a Job with end_time E, should_execute(current_time) returns
\* none and leaves repeats as it was for every current_time >= E, also for
\* current_time = E when the schedule has an occurrence at that instant;
\* and once a probe at or past E has returned none, no later
\* should_execute call on that Job returns the task.
C11_EndTimeTerminal ==
    Probed /\ end_time.tag = "Some" =>
        /\ call.arg >= end_time.t => call.ret = None /\ repeats = call.was
        /\ expired => call.ret.tag # "Some"

\* C12: next_occurrence never fails: for every constructed schedule and
\* every `after` it returns a timestamp or none.  The cron roll-forward
\* carries into the next unit when the advance falls in hour 23, on the
\* last day of a month, in December, or on a day of the month that the
\* following month does not have.
C12_NeverFails ==
    Queried => call.ret.tag \in {"Some", "None"}

\* A CronSchedule with day, hour and minute set, month and weekday not.
IsMonthly(s) ==
    /\ s.kind = "Cron"
    /\ s.day.tag = "Some" /\ s.hour.tag = "Some" /\ s.minute.tag = "Some"
    /\ s.month = None /\ s.weekday = None

\* Day d at h:m:00 of the calendar month that follows the month of `after`.
InFollowingMonth(d, h, m, after) ==
    LET f == Fields(after)
    IN  IF f.month = 12
        THEN Timestamp(DateTime(f.year + 1, 1, d, h, m, 0))
        ELSE Timestamp(DateTime(f.year, f.month + 1, d, h, m, 0))

\* C13: for a CronSchedule with day = D (1 <= D <= 28), hour = H and
\* minute = M, and every `after` whose day of the month is greater than D
\* (the 29th, 30th and 31st included), next_occurrence(after) is day D at
\* H:M:00 of the calendar month that immediately follows (January of the
\* next year when `after` is in December); it never skips a month.
C13_MonthlyCron ==
    Queried /\ IsMonthly(schedule) /\ schedule.day.t <= 28
            /\ Fields(call.arg).day > schedule.day.t =>
        call.ret = Some(InFollowingMonth(schedule.day.t, schedule.hour.t,
                                         schedule.minute.t, call.arg))

\* C14: JobBuilder::build returns InvalidConfiguration if and only if the
\* schedule or the task was never set; otherwise it returns a Job with
\* repeats = 0 and with max_repeats and end_time exactly as supplied (none
\* when never supplied), whatever the order of the setter calls.
C14_Build ==
    call.op = "build" =>
        IF supplied.schedule = None \/ supplied.task = None
        THEN /\ call.ret = Err("InvalidConfiguration")
             /\ schedule = NoSchedule /\ task = NoTask
        ELSE /\ call.ret.tag = "Ok"
             /\ schedule = supplied.schedule.schedule
             /\ task = supplied.task.task
             /\ repeats = 0
             /\ max_repeats = supplied.max_repeats
             /\ end_time = supplied.end_time

\* A Job was built with a repeat cap and an end time.
C14_Witness ==
    /\ call.op = "build" /\ call.ret.tag = "Ok"
    /\ max_repeats.tag = "Some" /\ end_time.tag = "Some"
    /\ repeats = 0

\* build was refused because the task was never set.
C14_WitnessRefused ==
    /\ call.op = "build" /\ call.ret = Err("InvalidConfiguration")
    /\ supplied.schedule # None /\ supplied.task = None

\* C15: OneTimeSchedule::new(T) fails with TimeInPast if and only if T is
\* not strictly later than the clock at the moment of construction (T
\* equal to the clock is rejected); when it succeeds the schedule's target
\* is exactly T.
C15_OneTimeNew ==
    call.op = "OneTimeSchedule::new" =>
        LET time == call.arg[1]
            now == call.arg[2]
        IN  /\ call.ret = Err("TimeInPast") <=> ~(time > now)
            /\ call.ret.tag = "Err" => schedule = NoSchedule
            /\ time > now =>
                   /\ call.ret.tag = "Ok"
                   /\ schedule.kind = "OneTime" /\ schedule.time = time

\* The target was the reading of the clock, and it was rejected.
C15_Witness ==
    /\ call.op = "OneTimeSchedule::new" /\ call.arg[1] = call.arg[2]
    /\ call.ret = Err("TimeInPast")

\* The values each CronSchedule setter accepts.
CronRange(field) ==
    CASE field = "minute" -> 0 .. 59
      [] field = "hour" -> 0 .. 23
      [] field = "day" -> 1 .. 31
      [] field = "month" -> 1 .. 12
      [] field = "weekday" -> 0 .. 6

\* C16: each CronSchedule setter accepts exactly the values of its range
\* (minute 0-59, hour 0-23, day 1-31, month 1-12, weekday 0-6) and stores
\* the value, leaving the other four fields as they were; a value outside
\* the range is rejected with an error and yields no schedule.
C16_CronSetters ==
    call.op = "CronSchedule::set" =>
        LET field == call.arg[1]
            value == call.arg[2]
            self == call.inner[1]
        IN  IF value \in CronRange(field)
            THEN /\ call.ret.tag = "Ok"
                 /\ schedule.kind = "Cron"
                 /\ schedule[field] = Some(value)
                 /\ \A other \in CronFields \ {field} :
                        schedule[other] = self[other]
            ELSE /\ call.ret = Err("InvalidConfiguration")
                 /\ schedule = NoSchedule

\* A setter stored a value in a schedule that had another field set, and
\* that field is still set.
C16_Witness ==
    /\ call.op = "CronSchedule::set" /\ call.ret.tag = "Ok"
    /\ call.arg[1] = "day" /\ schedule.day = Some(31)
    /\ call.inner[1].day = None
    /\ schedule.hour = Some(23) /\ schedule.minute = Some(0)

\* C18: RandomIntervalSchedule::new(min, max) fails with InvalidDuration if
\* min or max is zero (this check comes first), otherwise with
\* InvalidConfiguration if min > max, and otherwise succeeds (min = max is
\* accepted) with no anchor and no end_time.
C18_RandomIntervalNew ==
    call.op = "RandomIntervalSchedule::new" =>
        LET min == call.arg[1]
            max == call.arg[2]
        IN  /\ min = 0 \/ max = 0 => call.ret = Err("InvalidDuration")
            /\ min # 0 /\ max # 0 /\ min > max =>
                   call.ret = Err("InvalidConfiguration")
            /\ min # 0 /\ max # 0 /\ min <= max =>
                   /\ call.ret.tag = "Ok"
                   /\ schedule.kind = "RandomInterval"
                   /\ schedule.min_interval = min /\ schedule.max_interval = max
                   /\ schedule.last_time = None /\ schedule.end_time = None
            /\ call.ret.tag = "Err" => schedule = NoSchedule

\* min was greater than max and max was zero: the zero was reported.
C18_Witness ==
    /\ call.op = "RandomIntervalSchedule::new"
    /\ call.arg[1] > call.arg[2] /\ call.arg[2] = 0
    /\ call.ret = Err("InvalidDuration")

\* min = max was accepted.
C18_WitnessEqual ==
    /\ call.op = "RandomIntervalSchedule::new"
    /\ call.arg[1] = call.arg[2] /\ call.ret.tag = "Ok"

\* C17: whenever RandomIntervalSchedule.next_occurrence(after) returns a
\* timestamp, it is anchor + d for a whole-second d with
\* min_interval <= d <= max_interval, both ends attainable, where anchor is
\* the with_start_time value if one was set and `after` otherwise; with
\* end_time E it returns none exactly when anchor + d > E, so it never
\* returns a timestamp greater than E.
C17_RandomInterval ==
    Queried /\ schedule.kind = "RandomInterval" =>
        LET anchor == IF schedule.last_time.tag = "Some"
                      THEN schedule.last_time.t ELSE call.arg
            ds == schedule.min_interval .. schedule.max_interval
            E == schedule.end_time
            answer(d) == IF E.tag = "Some" /\ anchor + d > E.t
                         THEN None ELSE Some(anchor + d)
        IN  /\ call.ret.tag \in {"Some", "None"}
            /\ call.ret.tag = "Some" =>
                   /\ call.ret.t - anchor \in ds
                   /\ E.tag = "Some" => call.ret.t <= E.t
            /\ call.ret = None =>
                   E.tag = "Some" /\ \E d \in ds : anchor + d > E.t
            /\ \A d \in {schedule.min_interval, schedule.max_interval} :
                   answer(d) \in next_occurrence(schedule, call.arg)

\* An anchored schedule with min < max and an end time returned the anchor
\* plus max_interval.
C17_Witness ==
    /\ Queried /\ schedule.kind = "RandomInterval"
    /\ schedule.last_time.tag = "Some" /\ schedule.end_time.tag = "Some"
    /\ schedule.min_interval < schedule.max_interval
    /\ call.ret = Some(schedule.last_time.t + schedule.max_interval)

\* A schedule without an anchor returned none: `after` + d was past the end.
C17_WitnessNone ==
    /\ Queried /\ schedule.kind = "RandomInterval"
    /\ schedule.last_time = None /\ schedule.end_time.tag = "Some"
    /\ call.arg + schedule.min_interval <= schedule.end_time.t
    /\ call.ret = None

\* The day of the week of timestamp t, Monday = 0: day 0 of the epoch,
\* 1970-01-01, was a Thursday.
WeekdayOf(t) == ((t \div SecsPerDay) + 3) % 7

\* Field `field` of the schedule is a wildcard or equals `value`.
Satisfies(s, field, value) == s[field].tag = "Some" => s[field].t = value

\* C19: whenever CronSchedule.next_occurrence returns a timestamp, every
\* field that is set (month, day, weekday with 0 = Monday, hour, minute)
\* equals the corresponding field of the returned timestamp, all of them at
\* once.
C19_CronFieldsMatch ==
    Queried /\ schedule.kind = "Cron" /\ call.ret.tag = "Some" =>
        LET f == Fields(call.ret.t)
        IN  /\ Satisfies(schedule, "month", f.month)
            /\ Satisfies(schedule, "day", f.day)
            /\ Satisfies(schedule, "weekday", WeekdayOf(call.ret.t))
            /\ Satisfies(schedule, "hour", f.hour)
            /\ Satisfies(schedule, "minute", f.minute)

\* A schedule with month, weekday, hour and minute set returned a timestamp
\* on a later day than `after`.
C19_Witness ==
    /\ Queried /\ schedule.kind = "Cron" /\ call.ret.tag = "Some"
    /\ schedule.month.tag = "Some" /\ schedule.weekday.tag = "Some"
    /\ schedule.hour.tag = "Some" /\ schedule.minute.tag = "Some"
    /\ call.ret.t - call.arg > SecsPerDay

\* A schedule with day, hour and minute set returned a timestamp in the
\* month after that of `after`.
C19_WitnessDay ==
    /\ Queried /\ schedule.kind = "Cron" /\ call.ret.tag = "Some"
    /\ schedule.day.tag = "Some" /\ schedule.hour.tag = "Some"
    /\ Fields(call.ret.t).month = Fields(call.arg).month + 1

\* C20: for `after` >= start_time, IntervalSchedule.next_occurrence(after)
\* is exactly start_time + (k + 1) * interval with k the exact integer
\* floor of (after - start_time) / interval, for every elapsed value, also
\* past 2^24 seconds: the single-precision division and the 32-bit
\* multiplier lose nothing, an exactly aligned `after` advances to the next
\* slot, and an `after` one second before a slot returns that slot.
C20_IntervalExact ==
    Queried /\ schedule.kind = "Interval"
            /\ call.arg >= schedule.start_time =>
        LET elapsed == call.arg - schedule.start_time
            k == elapsed \div schedule.interval
            slot == schedule.start_time + (k + 1) * schedule.interval
        IN  /\ intervals_passed(schedule, call.arg) = k
            /\ as_u32(k + 1) = k + 1
            /\ call.ret.tag = "Some" => call.ret.t = slot
            /\ schedule.end_time = None => call.ret = Some(slot)

\* A CronSchedule with only the month set.
IsMonthOnly(s) ==
    /\ s.kind = "Cron" /\ s.month.tag = "Some"
    /\ s.day = None /\ s.weekday = None /\ s.hour = None /\ s.minute = None

\* C21: for a CronSchedule with month = M, queried at any `after` whose
\* month is less than M (the 29th, 30th and 31st of its month included),
\* the candidate jumps to the first day of month M of the same year at
\* 00:00:00, so with only the month set that timestamp is the result; month
\* M of the current year is never skipped.
C21_MonthJump ==
    Queried /\ IsMonthOnly(schedule)
            /\ Fields(call.arg).month < schedule.month.t =>
        call.ret = Some(Timestamp(DateTime(Fields(call.arg).year,
                                           schedule.month.t, 1, 0, 0, 0)))

\* A CronSchedule with weekday, hour and minute set, day and month not.
IsWeekly(s) ==
    /\ s.kind = "Cron"
    /\ s.weekday.tag = "Some" /\ s.hour.tag = "Some" /\ s.minute.tag = "Some"
    /\ s.day = None /\ s.month = None

\* The first instant h:m:00 on a day of weekday w (Monday = 0) strictly
\* after `after`.
FirstWeeklyAfter(w, h, m, after) ==
    LET at(d) == ((after \div SecsPerDay) + d) * SecsPerDay + h * 3600 + m * 60
    IN  at(Min({ d \in 0 .. 7 : WeekdayOf(at(d)) = w /\ at(d) > after }))

\* C22: for a CronSchedule with weekday = W (0 = Monday), hour = H and
\* minute = M and no day or month, next_occurrence(after) is H:M:00 on the
\* first date of weekday W that gives a timestamp strictly after `after`,
\* and it is never more than 7 days after `after`.
C22_WeeklyCron ==
    Queried /\ IsWeekly(schedule) =>
        /\ call.ret = Some(FirstWeeklyAfter(schedule.weekday.t, schedule.hour.t,
                                            schedule.minute.t, call.arg))
        /\ call.ret.t > call.arg
        /\ call.ret.t - call.arg <= 7 * SecsPerDay

\* The loop of CronSchedule::next_occurrence is in progress.
InCronLoop == call.op = "CronSchedule::next_occurrence" /\ call.ret = Running

\* Some calendar date satisfies the constraints that are set: a day of the
\* month exists in the month asked for (29 February in leap years).
Satisfiable(c) ==
    c.day.tag = "Some" /\ c.month.tag = "Some" =>
        c.day.t <= DaysInMonth(2024, c.month.t)

\* Every iteration that does not end the loop strictly increases the
\* candidate.
C23_Progress ==
    [][InCronLoop /\ InCronLoop' =>
           Timestamp(cron_next') > Timestamp(cron_next)]_vars

\* A loop over a configuration that some date satisfies returns a timestamp.
C23_Returns ==
    (InCronLoop /\ Satisfiable(schedule)) ~> (call.ret.tag = "Some")

\* C23: in CronSchedule.next_occurrence every loop iteration that does not
\* return strictly increases the candidate (which starts at after + 1
\* second), and for every configuration whose set constraints are satisfied
\* by at least one calendar date the loop eventually returns a timestamp:
\* it never returns none and never runs forever.
C23_CronTerminates == C23_Progress /\ C23_Returns

\* C24: for a CronSchedule with both day = 31 and month = 2 set,
\* next_occurrence never returns, for any `after`: the loop keeps advancing
\* the candidate across years and never reaches its return, so a call that
\* has been made is in its loop ever after.
C24_Day31FebruaryLoops ==
    /\ schedule.kind = "Cron"
    /\ schedule.day = Some(31) /\ schedule.month = Some(2)
    /\ call.op = "CronSchedule::next_occurrence"
    => call.ret = Running

\* C25: `repeats` counts the should_execute calls that returned the task.  A
\* call that returns the task leaves the counter exactly one above the value
\* it found, without wrapping around, also on a Job without max_repeats; a
\* call that does not return the task leaves the counter as it was.
C25_RepeatsCounts ==
    call.op = "should_execute" =>
        IF call.ret.tag = "Some"
        THEN /\ call.was # u32_MAX
             /\ repeats = call.was + 1
        ELSE repeats = call.was

\* C26: a Job bound to a OneTimeSchedule, without max_repeats, returns its
\* task at most once, whatever timestamps are probed and however often the
\* same timestamp is probed.
C26_OneTimeJobOnce ==
    (schedule.kind = "OneTime" /\ max_repeats = None) => fired <= 1

\* C27: a Job on a cron schedule with hour = H and minute = M, without
\* max_repeats and end_time, probed once at every consecutive second of a
\* day, returns its task exactly once, at H:M:00: the probe at H:M:00 returns
\* the task and no other probe does, the seconds H:M:01 .. H:M:59 included.
C27_DailySweep ==
    call.op = "should_execute" =>
        LET at == Fields(call.arg)
        IN  /\ fired <= 1
            /\ call.ret.tag = "Some" <=>
                   /\ at.hour = schedule.hour.t
                   /\ at.minute = schedule.minute.t
                   /\ at.second = 0

\* Whether a schedule is a OneTime, Interval or Cron schedule or a Combined
\* schedule of those.
IsDeterministic(s) ==
    \/ s.kind \in {"OneTime", "Interval", "Cron"}
    \/ /\ s.kind = "Combined"
       /\ \A i \in 1 .. Len(s.schedules) :
              s.schedules[i].kind \in {"OneTime", "Interval", "Cron"}

\* C28: a Job over a OneTime, Interval or Cron schedule or a Combined schedule
\* of those returns its task from should_execute(T) only if T is itself an
\* occurrence, next_occurrence(T - 1 s) = T: an occurrence that lies before T
\* is never made up for by a later probe.
C28_NoCatchUp ==
    (/\ IsDeterministic(schedule)
     /\ call.op = "should_execute"
     /\ call.ret.tag = "Some")
        => call.inner = <<Some(call.arg)>>

\* C29: a Job over a RandomIntervalSchedule whose anchor A was fixed with
\* with_start_time, without end_time and max_repeats, never returns its task
\* on a probe before A + min_interval and returns it on every probe from
\* A + max_interval on, however many probes have been made before.
C29_AnchoredRandomJob ==
    (/\ schedule.kind = "RandomInterval"
     /\ schedule.last_time.tag = "Some"
     /\ schedule.end_time = None
     /\ end_time = None
     /\ max_repeats = None
     /\ call.op = "should_execute")
        => /\ call.arg < schedule.last_time.t + schedule.min_interval
                  => call.ret = None
           /\ call.arg >= schedule.last_time.t + schedule.max_interval
                  => call.ret.tag = "Some"

==============================================================================
